---- MODULE Spec2Model ----
(***************************************************************************)
(* State-machine model of the Streamlit portfolio application:             *)
(*   config.py     Config.load_email_config / Config.send_email            *)
(*   analytics.py  Analytics (per-session counters, process-wide cache)    *)
(*   main.py       main() page render                                      *)
(*                                                                         *)
(* Python values are encoded as follows.  A string is a sequence of        *)
(* one-character strings.  An optional value (None, or a missing key of    *)
(* st.session_state / os.environ) is a sequence of length 0 or 1:          *)
(* <<>> is None, <<x>> is the value x.                                     *)
(***************************************************************************)
EXTENDS Integers, Sequences, FiniteSets, TLC

\* ------------------------------------------------------------------ bounds
MaxTicks == 2         \* the wall clock is followed for this many steps
MaxAttempts == 6      \* send_email calls followed per calendar hour
MaxViews == 2         \* track_project_view calls followed per session and project
MaxRenders == 3       \* runs of main() followed per session
MaxVisits == 2        \* track_visit calls followed per session
MaxSubmissions == 2   \* track_contact_submission calls followed per session

\* --------------------------------------------------------------- constants
EMAIL_RATE_LIMIT == 5
HoursPerDay == 24     \* datetime.now().hour ranges over 0..23
DefaultPort == <<"5", "8", "7">>
DefaultHost == <<"s", "m", "t", "p", ".", "g", "m", "a", "i", "l", ".", "c", "o", "m">>

Sessions == {"A", "B"}
EmailSessions == {"A"}   \* the sessions whose contact form is followed
StartHours == {0, 9}     \* the hours of day at which a behaviour begins
ProjectNames == {"Alpha", "Beta"}   \* the project names given to Analytics

NoneVal == <<>>
Some(x) == <<x>>
OrDefault(opt, default) == IF opt = <<>> THEN default ELSE opt[1]

VARIABLES
  now,            \* wall clock, in whole hours since some midnight
  ticks,          \* number of clock steps taken so far
  env,            \* os.environ after load_dotenv(): variable -> optional string
  current_hour,   \* st.session_state['current_hour'] of each session (optional)
  email_count,    \* st.session_state['email_count'] of each session (optional)
  okAttempts,     \* per session: send_email calls this calendar hour made with
                  \*   valid configuration and a working transport
  trueReturns,    \* per session: send_email calls this calendar hour that returned True
  failedAttempts, \* per session: send_email calls this calendar hour that did not return True
  window_start,   \* per session: the wall clock when its current window was recorded
  analytics,      \* st.session_state['analytics'] of each session (optional)
  cache,          \* the process-wide lru_cache of _get_cached_project_views:
                  \*   entries [key, value], least recently used first
  invalidated,    \* the keys whose entries the last cache_clear() dropped
  trackCalls,     \* per session and project: track_project_view calls made so far
  visitCalls,     \* per session: track_visit calls made so far
  submitCalls,    \* per session: track_contact_submission calls made so far
  project_views,  \* st.session_state['project_views'] of each session (main.py, optional)
  contact_submissions, \* st.session_state['contact_submissions'] (main.py, optional)
  form_fields,    \* st.session_state name/email/subject/message keys (optional)
  renders,        \* per session: runs of main() so far
  github_cache,   \* st.cache_data entry of fetch_github_data (optional, process-wide)
  chat_history,   \* st.session_state['chat_history'] of each session (optional)
  user_input,     \* st.session_state['user_input']: the text in the chat's input box
  ret             \* what the last call did: its arguments, outcome and observations

vars == <<now, ticks, env, current_hour, email_count, okAttempts, trueReturns,
          failedAttempts, window_start, analytics, cache, invalidated,
          trackCalls, visitCalls, submitCalls, project_views,
          contact_submissions, form_fields, renders, github_cache,
          chat_history, user_input, ret>>

emailVars == <<current_hour, email_count, okAttempts, trueReturns,
               failedAttempts, window_start>>
analyticsVars == <<analytics, cache, invalidated, trackCalls, visitCalls, submitCalls>>
mainVars == <<project_views, contact_submissions, form_fields, renders>>
chatVars == <<chat_history, user_input>>
uiVars == <<github_cache, chatVars>>

\* ------------------------------------------------------------ environment
EnvVars == {"EMAIL_HOST", "EMAIL_PORT", "EMAIL_USERNAME", "EMAIL_PASSWORD"}

\* the values an environment variable is given: unset, empty, or a string
EnvValues(v) ==
  IF v = "EMAIL_PORT"
    THEN {NoneVal, Some(<<>>), Some(<<"5", "8", "7">>), Some(<<"a", "b">>)}
    ELSE IF v = "EMAIL_USERNAME"
      THEN {NoneVal, Some(<<>>), Some(<<"u">>)}
      ELSE {NoneVal, Some(<<"x">>)}

\* os.getenv(var) and os.getenv(var, default)
getenv(v) == env[v]
getenv_default(v, default) == OrDefault(env[v], default)

\* truthiness of an optional string: None and "" are falsy
Truthy(opt) == opt # <<>> /\ opt[1] # <<>>

\* int(str) for strings of decimal digits; anything else raises ValueError
Digits == <<"0", "1", "2", "3", "4", "5", "6", "7", "8", "9">>
IsDigit(c) == \E i \in 1..10 : Digits[i] = c
DigitValue(c) == (CHOOSE i \in 1..10 : Digits[i] = c) - 1
IntParses(str) == Len(str) > 0 /\ \A i \in 1..Len(str) : IsDigit(str[i])
RECURSIVE IntValue(_)
IntValue(str) ==
  IF Len(str) = 0 THEN 0
  ELSE 10 * IntValue(SubSeq(str, 1, Len(str) - 1)) + DigitValue(str[Len(str)])

\* ------------------------------------------------- Config.load_email_config
required_vars == <<"EMAIL_HOST", "EMAIL_PORT", "EMAIL_USERNAME", "EMAIL_PASSWORD">>

\* [var for var in required_vars if not os.getenv(var)], in list order
missing_vars == SelectSeq(required_vars, LAMBDA v : ~Truthy(getenv(v)))

\* The result of load_email_config(): either the config dict or the ValueError
\* raised; "names" is the list of variable names the error message contains.
load_email_config ==
  LET portStr == getenv_default("EMAIL_PORT", DefaultPort) IN
  IF ~IntParses(portStr)
    THEN [raised |-> "ValueError", text |-> "invalid literal for int()", names |-> <<>>]
    ELSE IF missing_vars # <<>>
      THEN [raised |-> "ValueError", text |-> "Missing required environment variables",
            names |-> missing_vars]
      ELSE [raised |-> "no", text |-> "", names |-> <<>>,
            host |-> getenv_default("EMAIL_HOST", DefaultHost),
            port |-> IntValue(portStr),
            username |-> getenv("EMAIL_USERNAME"),
            password |-> getenv("EMAIL_PASSWORD")]

\* -------------------------------------------------------- Config.send_email
\* names bound at module level of config.py (its imports and the class)
ModuleGlobals == {"os", "Dict", "Union", "dataclass", "MIMEText", "MIMEMultipart",
                  "smtplib", "st", "load_dotenv", "Config"}
NameBound(n) == n \in ModuleGlobals

\* what the SMTP server does with one connection
Transports == {"ok", "connect_fails", "starttls_fails", "login_fails", "send_message_fails"}

\* the SMTP calls made, in order, for a given transport behaviour
smtp_calls(transport) ==
  CASE transport = "connect_fails" -> <<"SMTP">>
    [] transport = "starttls_fails" -> <<"SMTP", "starttls">>
    [] transport = "login_fails" -> <<"SMTP", "starttls", "login">>
    [] OTHER -> <<"SMTP", "starttls", "login", "send_message">>

\* One call of send_email by session s: the new session_state entries, the
\* outcome ("True", "False" or the exception that escapes), the st.error
\* message and the SMTP calls made.
send_email(s, transport) ==
  LET hour == OrDefault(current_hour[s], 0) IN
  IF ~NameBound("datetime")
    THEN \* line 72: the name lookup fails, outside the try block
         [current_hour |-> current_hour[s], email_count |-> email_count[s],
          result |-> "NameError", error |-> "", names |-> <<>>, smtp |-> <<>>]
    ELSE
      LET clock_hour == now % HoursPerDay
          reset == hour # clock_hour
          hour1 == IF reset THEN Some(clock_hour) ELSE current_hour[s]
          count1 == IF reset THEN Some(0) ELSE email_count[s]
          cfg == load_email_config
      IN IF OrDefault(count1, 0) >= EMAIL_RATE_LIMIT
           THEN [current_hour |-> hour1, email_count |-> count1,
                 result |-> "False", error |-> "Email rate limit exceeded",
                 names |-> <<>>, smtp |-> <<>>]
           ELSE IF cfg.raised # "no"
             THEN [current_hour |-> hour1, email_count |-> count1,
                   result |-> "False", error |-> "Failed to send email",
                   names |-> cfg.names, smtp |-> <<>>]
             ELSE IF transport # "ok"
               THEN [current_hour |-> hour1, email_count |-> count1,
                     result |-> "False", error |-> "Failed to send email",
                     names |-> <<>>, smtp |-> smtp_calls(transport)]
               ELSE [current_hour |-> hour1,
                     email_count |-> Some(OrDefault(count1, 0) + 1),
                     result |-> "True", error |-> "",
                     names |-> <<>>, smtp |-> smtp_calls(transport)]

ConfigValid == load_email_config.raised = "no"

\* ------------------------------------------------------------------- Init
Init ==
  /\ now \in StartHours
  /\ ticks = 0
  /\ env \in [EnvVars -> UNION {EnvValues(v) : v \in EnvVars}]
  /\ \A v \in EnvVars : env[v] \in EnvValues(v)
  /\ current_hour = [s \in Sessions |-> NoneVal]
  /\ email_count = [s \in Sessions |-> NoneVal]
  /\ okAttempts = [s \in Sessions |-> 0]
  /\ trueReturns = [s \in Sessions |-> 0]
  /\ failedAttempts = [s \in Sessions |-> 0]
  /\ window_start = [s \in Sessions |-> now]
  /\ analytics = [s \in Sessions |-> NoneVal]
  /\ cache = <<>>
  /\ invalidated = {}
  /\ trackCalls = [s \in Sessions |-> [p \in ProjectNames |-> 0]]
  /\ visitCalls = [s \in Sessions |-> 0]
  /\ submitCalls = [s \in Sessions |-> 0]
  /\ project_views = [s \in Sessions |-> NoneVal]
  /\ contact_submissions = [s \in Sessions |-> NoneVal]
  /\ form_fields = [s \in Sessions |-> NoneVal]
  /\ renders = [s \in Sessions |-> 0]
  /\ github_cache = NoneVal
  /\ chat_history = [s \in Sessions |-> NoneVal]
  /\ user_input = [s \in Sessions |-> <<>>]
  /\ ret = [op |-> "none"]

\* ---------------------------------------------------------------- actions
\* the wall clock moves on by an hour or by a whole day
Tick ==
  /\ \E d \in {1, HoursPerDay} :
       /\ ticks < MaxTicks
       /\ now' = now + d
  /\ ticks' = ticks + 1
  /\ okAttempts' = [s \in Sessions |-> 0]
  /\ trueReturns' = [s \in Sessions |-> 0]
  /\ failedAttempts' = [s \in Sessions |-> 0]
  /\ UNCHANGED <<uiVars, env, current_hour, email_count, window_start, analyticsVars, mainVars, ret>>

\* a session calls Config.send_email
SendEmail(s) ==
  /\ trueReturns[s] + failedAttempts[s] < MaxAttempts
  /\ \E transport \in Transports :
       LET r == send_email(s, transport) IN
       /\ current_hour' = [current_hour EXCEPT ![s] = r.current_hour]
       /\ email_count' = [email_count EXCEPT ![s] = r.email_count]
       /\ okAttempts' = [okAttempts EXCEPT ![s] =
                           IF ConfigValid /\ transport = "ok" THEN @ + 1 ELSE @]
       /\ trueReturns' = [trueReturns EXCEPT ![s] =
                           IF r.result = "True" THEN @ + 1 ELSE @]
       /\ failedAttempts' = [failedAttempts EXCEPT ![s] =
                           IF r.result # "True" THEN @ + 1 ELSE @]
       /\ window_start' = [window_start EXCEPT ![s] =
                           IF r.current_hour # current_hour[s] THEN now ELSE @]
       /\ ret' = [op |-> "send_email", session |-> s, transport |-> transport,
                  clock_hour |-> now % HoursPerDay,
                  crossed |-> (now # window_start[s]),
                  pre_true |-> trueReturns[s], pre_failed |-> failedAttempts[s],
                  pre_hour |-> current_hour[s], pre_count |-> email_count[s],
                  post_hour |-> r.current_hour, post_count |-> r.email_count,
                  config_valid |-> ConfigValid,
                  result |-> r.result, error |-> r.error, names |-> r.names,
                  smtp |-> r.smtp]
  /\ UNCHANGED <<uiVars, now, ticks, env, analyticsVars, mainVars>>

\* Config.load_email_config is called on its own
LoadEmailConfig ==
  /\ ret' = [op |-> "load_email_config", result |-> load_email_config]
  /\ UNCHANGED <<uiVars, now, ticks, env, emailVars, analyticsVars, mainVars>>

NextEmail ==
  \/ Tick
  \/ \E s \in EmailSessions : SendEmail(s)
  \/ LoadEmailConfig

SpecEmail == Init /\ [][NextEmail]_vars

\* ---------------------------------------------------------------- Analytics
CACHE_MAXSIZE == 100

\* the dict _get_analytics_state() stores on first access
NewAnalyticsState ==
  [project_views |-> <<>>, contact_submissions |-> 0,
   last_interaction |-> NoneVal, total_visits |-> 0]

\* _get_analytics_state as it would be without its "not in" test
get_analytics_state_reset(s) == NewAnalyticsState

\* Analytics._get_analytics_state(): the session's state after the call
get_analytics_state(s) ==
  IF analytics[s] = NoneVal THEN NewAnalyticsState ELSE analytics[s][1]

\* A dict is a sequence of [key, value] entries in insertion order.
HasKey(dict, k) == \E i \in 1..Len(dict) : dict[i].key = k
IndexOf(dict, k) == CHOOSE i \in 1..Len(dict) : dict[i].key = k
\* dict.get(k, default)
DictGet(dict, k, default) == IF HasKey(dict, k) THEN dict[IndexOf(dict, k)].value ELSE default
\* dict[k] = v
DictSet(dict, k, v) ==
  IF HasKey(dict, k)
    THEN [dict EXCEPT ![IndexOf(dict, k)].value = v]
    ELSE Append(dict, [key |-> k, value |-> v])
Without(seq, i) == SubSeq(seq, 1, i - 1) \o SubSeq(seq, i + 1, Len(seq))

\* Analytics._get_cached_project_views(project_name) called in session s,
\* through functools.lru_cache(maxsize=100): the value returned, the cache and
\* the session's analytics entry afterwards.
get_cached_project_views(s, project_name) ==
  IF HasKey(cache, project_name)
    THEN LET i == IndexOf(cache, project_name) IN
         [value |-> cache[i].value,
          cache |-> Append(Without(cache, i), cache[i]),
          analytics |-> analytics[s]]
    ELSE LET state == get_analytics_state(s)
             v == DictGet(state.project_views, project_name, 0)
             kept == IF Len(cache) >= CACHE_MAXSIZE THEN Tail(cache) ELSE cache
         IN [value |-> v,
             cache |-> Append(kept, [key |-> project_name, value |-> v]),
             analytics |-> Some(state)]

\* Analytics.track_project_view, lines 55-59: the session's analytics state
\* with the project's count inserted if absent and incremented
view_counted(state, project_name) ==
  LET views0 == IF HasKey(state.project_views, project_name)
                  THEN state.project_views
                  ELSE DictSet(state.project_views, project_name, 0)
      views1 == DictSet(views0, project_name, DictGet(views0, project_name, 0) + 1)
  IN [state EXCEPT !.project_views = views1]

\* track_project_view, lines 54-59, in session s: the analytics state afterwards
counted_view(s, project_name) == view_counted(get_analytics_state(s), project_name)

\* track_project_view as it would be without its cache_clear() call
track_project_view_keeps_cache(s, project_name) ==
  [analytics |-> Some(counted_view(s, project_name)), cache |-> cache]

\* Analytics.track_project_view(project_name) called in session s: the
\* session's analytics entry and the cache afterwards.
track_project_view(s, project_name) ==
  [analytics |-> Some(counted_view(s, project_name)), cache |-> <<>>]

\* a session calls Analytics.track_project_view
TrackProjectView(s) ==
  \E p \in ProjectNames :
    /\ trackCalls[s][p] < MaxViews
    /\ LET r == track_project_view(s, p) IN
       /\ analytics' = [analytics EXCEPT ![s] = r.analytics]
       /\ cache' = r.cache
       /\ invalidated' = {cache[i].key : i \in 1..Len(cache)} \ {r.cache[i].key : i \in 1..Len(r.cache)}
    /\ trackCalls' = [trackCalls EXCEPT ![s][p] = @ + 1]
    /\ ret' = [op |-> "track_project_view", session |-> s, name |-> p]
    /\ UNCHANGED <<uiVars, now, ticks, env, emailVars, mainVars, visitCalls, submitCalls>>

\* a session calls Analytics.get_project_views
GetProjectViews(s) ==
  \E p \in ProjectNames :
    LET r == get_cached_project_views(s, p) IN
    /\ analytics' = [analytics EXCEPT ![s] = r.analytics]
    /\ cache' = r.cache
    /\ ret' = [op |-> "get_project_views", session |-> s, name |-> p,
               value |-> r.value]
    /\ UNCHANGED <<uiVars, now, ticks, env, emailVars, mainVars, invalidated, trackCalls,
                   visitCalls, submitCalls>>

\* Analytics reads no environment variable, and the clock only in
\* track_contact_submission: a behaviour begins with all unset, at one hour.
InitAnalytics ==
  /\ Init
  /\ now = 9
  /\ \A v \in EnvVars : env[v] = NoneVal

\* all sessions of one server process
NextAnalytics ==
  \/ \E s \in Sessions : TrackProjectView(s)
  \/ \E s \in Sessions : GetProjectViews(s)

SpecAnalytics == InitAnalytics /\ [][NextAnalytics]_vars

\* a server process that serves a single session
NextOneSession ==
  \/ TrackProjectView("A")
  \/ GetProjectViews("A")

SpecOneSession == InitAnalytics /\ [][NextOneSession]_vars

\* ------------------------------------------- Analytics: visits, submissions
\* datetime.now().isoformat(): the date part and the time-of-day part
isoformat(t) == <<t \div HoursPerDay, t % HoursPerDay>>

\* track_visit as it would be if it counted a session once only
track_visit_once(s) ==
  LET state == get_analytics_state(s) IN
  [state EXCEPT !.total_visits = IF @ = 0 THEN 1 ELSE @]

\* Analytics.track_visit() called in session s: the analytics state afterwards
track_visit(s) ==
  LET state == get_analytics_state(s) IN
  [state EXCEPT !.total_visits = @ + 1]

\* track_contact_submission as it would be without its timestamp line
track_contact_submission_untimed(s) ==
  LET state == get_analytics_state(s) IN
  [state EXCEPT !.contact_submissions = @ + 1]

\* Analytics.track_contact_submission() called in session s
track_contact_submission(s) ==
  LET state == get_analytics_state(s) IN
  [state EXCEPT !.contact_submissions = @ + 1,
                !.last_interaction = Some(isoformat(now))]

\* sum(d.values())
RECURSIVE SumValues(_)
SumValues(dict) ==
  IF dict = <<>> THEN 0 ELSE dict[1].value + SumValues(Tail(dict))

\* max(...) as it would be if it kept the last of several greatest items
MaxItem_last(dict, default) ==
  IF dict = <<>>
    THEN default
    ELSE LET i == CHOOSE i \in 1..Len(dict) :
                    /\ \A j \in 1..Len(dict) : dict[j].value <= dict[i].value
                    /\ \A j \in (i + 1)..Len(dict) : dict[j].value < dict[i].value
         IN <<dict[i].key, dict[i].value>>

\* max(d.items(), key=lambda x: x[1], default=default): the first item, in
\* insertion order, whose value no other item exceeds
MaxItem(dict, default) ==
  IF dict = <<>>
    THEN default
    ELSE LET i == CHOOSE i \in 1..Len(dict) :
                    /\ \A j \in 1..Len(dict) : dict[j].value <= dict[i].value
                    /\ \A j \in 1..(i - 1) : dict[j].value < dict[i].value
         IN <<dict[i].key, dict[i].value>>

\* get_analytics_summary as it would be if it always reported the first project
get_analytics_summary_first(s) ==
  LET state == get_analytics_state(s)
      views == state.project_views IN
  [total_visits |-> state.total_visits,
   total_contact_submissions |-> state.contact_submissions,
   total_project_views |-> SumValues(views),
   most_viewed_project |-> IF views = <<>> THEN <<"None", 0>>
                           ELSE <<views[1].key, views[1].value>>,
   last_interaction |-> state.last_interaction]

\* get_analytics_summary as it would be if it counted the projects, not the views
get_analytics_summary_len(s) ==
  LET state == get_analytics_state(s) IN
  [total_visits |-> state.total_visits,
   total_contact_submissions |-> state.contact_submissions,
   total_project_views |-> Len(state.project_views),
   most_viewed_project |-> MaxItem(state.project_views, <<"None", 0>>),
   last_interaction |-> state.last_interaction]

\* Analytics.get_analytics_summary() called in session s: the dict returned
get_analytics_summary(s) ==
  LET state == get_analytics_state(s) IN
  [total_visits |-> state.total_visits,
   total_contact_submissions |-> state.contact_submissions,
   total_project_views |-> SumValues(state.project_views),
   most_viewed_project |-> MaxItem(state.project_views, <<"None", 0>>),
   last_interaction |-> state.last_interaction]

\* a session calls Analytics.track_visit
TrackVisit(s) ==
  /\ visitCalls[s] < MaxVisits
  /\ analytics' = [analytics EXCEPT ![s] = Some(track_visit(s))]
  /\ visitCalls' = [visitCalls EXCEPT ![s] = @ + 1]
  /\ ret' = [op |-> "track_visit", session |-> s]
  /\ UNCHANGED <<uiVars, now, ticks, env, emailVars, mainVars, cache, invalidated,
                 trackCalls, submitCalls>>

\* a session calls Analytics.track_contact_submission
TrackContactSubmission(s) ==
  /\ submitCalls[s] < MaxSubmissions
  /\ analytics' = [analytics EXCEPT ![s] = Some(track_contact_submission(s))]
  /\ submitCalls' = [submitCalls EXCEPT ![s] = @ + 1]
  /\ ret' = [op |-> "track_contact_submission", session |-> s, clock |-> now]
  /\ UNCHANGED <<uiVars, now, ticks, env, emailVars, mainVars, cache, invalidated,
                 trackCalls, visitCalls>>

\* a session calls one of the getters that read the analytics state directly;
\* each begins with _get_analytics_state(), which stores the state if absent
GetTotalVisits(s) ==
  /\ analytics' = [analytics EXCEPT ![s] = Some(get_analytics_state(s))]
  /\ ret' = [op |-> "get_total_visits", session |-> s,
             value |-> get_analytics_state(s).total_visits]
  /\ UNCHANGED <<uiVars, now, ticks, env, emailVars, mainVars, cache, invalidated,
                 trackCalls, visitCalls, submitCalls>>

GetTotalContactSubmissions(s) ==
  /\ analytics' = [analytics EXCEPT ![s] = Some(get_analytics_state(s))]
  /\ ret' = [op |-> "get_total_contact_submissions", session |-> s,
             value |-> get_analytics_state(s).contact_submissions]
  /\ UNCHANGED <<uiVars, now, ticks, env, emailVars, mainVars, cache, invalidated,
                 trackCalls, visitCalls, submitCalls>>

GetLastInteraction(s) ==
  /\ analytics' = [analytics EXCEPT ![s] = Some(get_analytics_state(s))]
  /\ ret' = [op |-> "get_last_interaction", session |-> s,
             value |-> get_analytics_state(s).last_interaction]
  /\ UNCHANGED <<uiVars, now, ticks, env, emailVars, mainVars, cache, invalidated,
                 trackCalls, visitCalls, submitCalls>>

GetAnalyticsSummary(s) ==
  /\ analytics' = [analytics EXCEPT ![s] = Some(get_analytics_state(s))]
  /\ ret' = [op |-> "get_analytics_summary", session |-> s,
             value |-> get_analytics_summary(s)]
  /\ UNCHANGED <<uiVars, now, ticks, env, emailVars, mainVars, cache, invalidated,
                 trackCalls, visitCalls, submitCalls>>

\* every operation of Analytics, in a server process that serves one session
NextStore ==
  \/ TrackProjectView("A")
  \/ GetProjectViews("A")
  \/ TrackVisit("A")
  \/ TrackContactSubmission("A")
  \/ GetTotalVisits("A")
  \/ GetTotalContactSubmissions("A")
  \/ GetLastInteraction("A")
  \/ GetAnalyticsSummary("A")

SpecStore == InitAnalytics /\ [][NextStore]_vars

\* the operations that write the analytics state and the getters of what
\* track_contact_submission writes, while the wall clock moves
NextTimed ==
  \/ Tick
  \/ TrackProjectView("A")
  \/ TrackVisit("A")
  \/ TrackContactSubmission("A")
  \/ GetTotalContactSubmissions("A")
  \/ GetLastInteraction("A")

SpecTimed == InitAnalytics /\ [][NextTimed]_vars

\* ------------------------------------------------------------------ main.py
\* PortfolioData.get_projects_data(): name and optional tech_stack of each project
projects_data ==
  << [name |-> "Online Shop Django Project",
      tech_stack |-> Some({"Python", "Django", "PostgreSQL", "JavaScript", "Bootstrap"})],
     [name |-> "SaaS Django Project",
      tech_stack |-> Some({"Python", "Django", "PostgreSQL"})],
     [name |-> "Django Projects", tech_stack |-> NoneVal],
     [name |-> "Python Projects", tech_stack |-> NoneVal],
     [name |-> "Django & React Notes App", tech_stack |-> NoneVal],
     [name |-> "Books React E-commerce App", tech_stack |-> NoneVal] >>

\* the selections of the "Filter by Technology" multiselect that are followed
FilterChoices == {{}, {"Python"}, {"JavaScript"}, {"React"}, {"React", "PostgreSQL"}}

\* not tech_filter or any(tech in project.get('tech_stack', []) for tech in tech_filter)
Shown(project, tech_filter) ==
  \/ tech_filter = {}
  \/ \E tech \in tech_filter : tech \in OrDefault(project.tech_stack, {})

\* main.Analytics.track_project_view applied to a session_state.project_views entry
main_track_project_view(views, project_name) ==
  LET dict == OrDefault(views, <<>>)
      dict0 == IF HasKey(dict, project_name) THEN dict ELSE DictSet(dict, project_name, 0)
  IN Some(DictSet(dict0, project_name, DictGet(dict0, project_name, 0) + 1))

\* PortfolioUI.projects(): the project_views entry after the loop over the
\* first n projects
RECURSIVE projects(_, _, _)
projects(views, tech_filter, n) ==
  IF n = 0 THEN views
  ELSE LET before == projects(views, tech_filter, n - 1) IN
       IF Shown(projects_data[n], tech_filter)
         THEN main_track_project_view(before, projects_data[n].name)
         ELSE before

\* main.Config.load_email_config(): no check of missing variables
main_load_email_config ==
  LET portStr == getenv_default("EMAIL_PORT", DefaultPort) IN
  IF ~IntParses(portStr)
    THEN [raised |-> "ValueError"]
    ELSE [raised |-> "no",
          host |-> getenv_default("EMAIL_HOST", DefaultHost),
          port |-> IntValue(portStr),
          username |-> getenv("EMAIL_USERNAME"),
          password |-> getenv("EMAIL_PASSWORD")]

\* main.Config.send_email(): True or False
main_send_email(transport) ==
  LET cfg == main_load_email_config IN
  IF cfg.raised # "no" THEN FALSE
  ELSE IF ~(Truthy(cfg.username) /\ Truthy(cfg.password)) THEN FALSE
  ELSE transport = "ok"

\* what the visitor typed into the contact form
FormTexts == {<<>>, <<"m">>}
FormEmails == {<<>>, <<"a">>, <<"a", "@", "b">>}
Contains(str, c) == \E i \in 1..Len(str) : str[i] = c

\* PortfolioUI.render_contact_form() after "Send Message": does the
\* submission count as sent
contact_form_sent(name, email, subject, message, transport) ==
  IF name = <<>> \/ email = <<>> \/ subject = <<>> \/ message = <<>> THEN FALSE
  ELSE IF ~Contains(email, "@") THEN FALSE
  ELSE main_send_email(transport)

\* One run of main() for a session: every section is rendered; projects()
\* counts each project it shows, and a submitted contact form is validated,
\* sent and counted.  The GitHub and chat sections keep their own keys
\* (messages, default_model), which no other section reads.
Render(s) ==
  /\ renders[s] < MaxRenders
  /\ renders' = [renders EXCEPT ![s] = @ + 1]
  /\ \E tech_filter \in FilterChoices :
       project_views' = [project_views EXCEPT ![s] =
                           projects(@, tech_filter, Len(projects_data))]
  /\ \E submitted \in BOOLEAN, name \in FormTexts, email \in FormEmails,
        message \in FormTexts, transport \in Transports :
       LET sent == submitted /\ contact_form_sent(name, email, <<"s">>, message, transport) IN
       /\ contact_submissions' = [contact_submissions EXCEPT ![s] =
                                    IF sent THEN Some(OrDefault(@, 0) + 1) ELSE @]
       /\ form_fields' = [form_fields EXCEPT ![s] = IF sent THEN Some(<<>>) ELSE @]
       /\ ret' = [op |-> "main", session |-> s, submitted |-> submitted, sent |-> sent]
  /\ UNCHANGED <<uiVars, now, ticks, env, emailVars, analyticsVars>>

NextMain == \E s \in EmailSessions : Render(s)

SpecMain == Init /\ [][NextMain]_vars

\* ------------------------------------------- components.py: GitHub section
LatestShown == 20        \* repos[:20]
CacheTtlHours == 1       \* st.cache_data(ttl=3600), in hours

\* What the repository-list request can do.  A "response" carries the status
\* class and, when the body parses as JSON, the parsed value.
RepoOld == [name |-> "notes", updated_at |-> Some(<<2023, 5, 1>>)]
RepoNew == [name |-> "shop", updated_at |-> Some(<<2024, 2, 9>>)]
RepoBare == [name |-> "bare", updated_at |-> NoneVal]   \* no "updated_at" key
JsonBodies ==
  { [kind |-> "list", items |-> <<>>],
    [kind |-> "list", items |-> <<RepoOld>>],
    [kind |-> "list", items |-> <<RepoOld, RepoNew>>],
    [kind |-> "list", items |-> <<RepoNew, RepoBare>>],
    [kind |-> "object", items |-> <<>>],     \* a non-empty JSON object
    [kind |-> "null", items |-> <<>>] }
ListResponses ==
  { [outcome |-> "connection_error", body |-> NoneVal],
    [outcome |-> "timeout", body |-> NoneVal],
    [outcome |-> "status_error", body |-> NoneVal],
    [outcome |-> "not_json", body |-> NoneVal] }
  \cup { [outcome |-> "ok", body |-> Some(b)] : b \in JsonBodies }

\* What a languages request can do.
LanguageResponses ==
  { [outcome |-> "connection_error", keys |-> <<>>],
    [outcome |-> "timeout", keys |-> <<>>],
    [outcome |-> "not_json", keys |-> <<>>],
    [outcome |-> "json_not_object", keys |-> <<>>],
    [outcome |-> "status_error", keys |-> <<"message", "documentation_url">>],
    [outcome |-> "ok", keys |-> <<"Python", "HTML">>] }

EmptyDict == [kind |-> "object_empty", items |-> <<>>]

\* requests.get raises a RequestException (ConnectionError, Timeout),
\* raise_for_status raises HTTPError, and response.json() raises
\* requests.exceptions.JSONDecodeError, a RequestException since requests 2.27
RaisesRequestException(outcome) ==
  outcome \in {"connection_error", "timeout", "status_error", "not_json"}

\* the body of fetch_github_data: the value returned and whether st.error ran
fetch_github_data_uncached(resp) ==
  IF RaisesRequestException(resp.outcome)
    THEN [value |-> EmptyDict, error |-> TRUE]
    ELSE [value |-> resp.body[1], error |-> FALSE]

\* fetch_github_data through st.cache_data(ttl=3600): a stored entry younger
\* than the ttl is returned (and its st.error replayed) without a request
fetch_github_data(resp) ==
  IF github_cache # NoneVal /\ now - github_cache[1].at < CacheTtlHours
    THEN [value |-> github_cache[1].value, error |-> github_cache[1].error,
          requested |-> FALSE, cache |-> github_cache]
    ELSE LET r == fetch_github_data_uncached(resp) IN
         [value |-> r.value, error |-> r.error, requested |-> TRUE,
          cache |-> Some([value |-> r.value, error |-> r.error, at |-> now])]

\* "not repos"
Falsy(value) ==
  \/ value.kind \in {"null", "object_empty"}
  \/ value.kind = "list" /\ value.items = <<>>

\* t1 < t2 for (year, month, day)
DateLess(t1, t2) ==
  \/ t1[1] < t2[1]
  \/ t1[1] = t2[1] /\ t1[2] < t2[2]
  \/ t1[1] = t2[1] /\ t1[2] = t2[2] /\ t1[3] < t2[3]

\* repos.sort(key=lambda r: r["updated_at"], reverse=True): newest first,
\* equal keys in their original order
RECURSIVE SortByUpdated(_)
SortByUpdated(repos) ==
  IF repos = <<>> THEN <<>>
  ELSE LET i == CHOOSE i \in 1..Len(repos) :
                  /\ \A j \in 1..Len(repos) :
                       ~DateLess(repos[i].updated_at[1], repos[j].updated_at[1])
                  /\ \A j \in 1..(i - 1) :
                       DateLess(repos[j].updated_at[1], repos[i].updated_at[1])
       IN <<repos[i]>> \o SortByUpdated(Without(repos, i))

\* the languages block of one repository: what is written, or what is raised
languages_line(lresp) ==
  CASE lresp.outcome \in {"connection_error", "timeout", "not_json"} ->
         [raised |-> "no", caught |-> TRUE, languages |-> <<>>]
    [] lresp.outcome = "json_not_object" ->
         [raised |-> "AttributeError", caught |-> FALSE, languages |-> <<>>]
    [] OTHER ->
         [raised |-> "no", caught |-> FALSE, languages |-> lresp.keys]

\* the loop over repos[:20]: the expanders written up to the first exception
RECURSIVE render_repos(_, _, _)
render_repos(repos, lresps, i) ==
  IF i > Len(repos) \/ i > LatestShown
    THEN [raised |-> "no", shown |-> <<>>]
    ELSE LET line == languages_line(lresps[i]) IN
         IF line.raised # "no"
           THEN [raised |-> line.raised, shown |-> <<>>]
           ELSE LET rest == render_repos(repos, lresps, i + 1) IN
                [raised |-> rest.raised,
                 shown |-> <<[name |-> repos[i].name,
                              unable |-> line.caught,
                              languages |-> line.languages,
                              last_updated |-> repos[i].updated_at[1]]>> \o rest.shown]

\* render_github_section without its fetch: given what fetch_github_data returned
render_fetched(value, lresps) ==
  IF Falsy(value)
    THEN [raised |-> "no", warning |-> TRUE, shown |-> <<>>]
  ELSE IF value.kind # "list"
    THEN [raised |-> "AttributeError", warning |-> FALSE, shown |-> <<>>]
  ELSE IF \E i \in 1..Len(value.items) : value.items[i].updated_at = NoneVal
    THEN [raised |-> "KeyError", warning |-> FALSE, shown |-> <<>>]
  ELSE LET r == render_repos(SortByUpdated(value.items), lresps, 1) IN
       [raised |-> r.raised, warning |-> FALSE, shown |-> r.shown]

\* the length of the longest repository list among JsonBodies
MaxRepos ==
  CHOOSE n \in 0..LatestShown :
    /\ \E b \in JsonBodies : Len(b.items) = n
    /\ \A b \in JsonBodies : Len(b.items) <= n

\* PortfolioComponents.render_github_section in session s
RenderGithubSection(s) ==
  \E resp \in ListResponses, lresps \in [1..MaxRepos -> LanguageResponses] :
    LET f == fetch_github_data(resp)
        r == render_fetched(f.value, lresps) IN
    /\ github_cache' = f.cache
    /\ ret' = [op |-> "render_github_section", session |-> s,
               list_outcome |-> IF f.requested THEN resp.outcome ELSE "cached",
               language_outcomes |->
                 [i \in 1..Len(r.shown) |-> lresps[i].outcome],
               fetched |-> f.value, error |-> f.error,
               raised |-> r.raised, warning |-> r.warning, shown |-> r.shown]
    /\ UNCHANGED <<chatVars, now, ticks, env, emailVars, analyticsVars, mainVars>>

NextGithub ==
  \/ Tick
  \/ \E s \in EmailSessions : RenderGithubSection(s)

SpecGithub == InitAnalytics /\ [][NextGithub]_vars

\* --------------------------------------------- components.py: is_valid_email
MaxEmailLen == 7     \* the longest address given to is_valid_email

Letters ==
  {"a", "b", "c", "d", "e", "f", "g", "h", "i", "j", "k", "l", "m",
   "n", "o", "p", "q", "r", "s", "t", "u", "v", "w", "x", "y", "z",
   "A", "B", "C", "D", "E", "F", "G", "H", "I", "J", "K", "L", "M",
   "N", "O", "P", "Q", "R", "S", "T", "U", "V", "W", "X", "Y", "Z"}
DigitChars == {Digits[i] : i \in 1..Len(Digits)}
LocalChars == Letters \cup DigitChars \cup {".", "_", "%", "+", "-"}   \* [a-zA-Z0-9._%+-]
DomainChars == Letters \cup DigitChars \cup {".", "-"}                 \* [a-zA-Z0-9.-]

\* the positions at which "$" matches: the end of the string, and just
\* before a newline that is the last character
EndsAt(str) ==
  {Len(str)} \cup (IF str # <<>> /\ str[Len(str)] = "\n" THEN {Len(str) - 1} ELSE {})

\* re.match(pattern, email) with str[at] the "@" and str[dot] the last dot:
\* one or more local characters, "@", one or more domain characters, ".",
\* two or more letters, and then an end position
Matches(str, ends) ==
  \E e \in ends, at \in 1..Len(str), dot \in 1..Len(str) :
    /\ at > 1
    /\ \A k \in 1..(at - 1) : str[k] \in LocalChars
    /\ str[at] = "@"
    /\ dot > at + 1
    /\ \A k \in (at + 1)..(dot - 1) : str[k] \in DomainChars
    /\ str[dot] = "."
    /\ e >= dot + 2
    /\ \A k \in (dot + 1)..e : str[k] \in Letters

\* is_valid_email(email)
is_valid_email(email) == Matches(email, EndsAt(email))

\* the characters the addresses are made of: a letter, a digit, a dot, the
\* at sign, a space and a newline
EmailChars == {"a", "1", ".", "@", " ", "\n"}
EmailInputs == UNION {[1..n -> EmailChars] : n \in 0..MaxEmailLen}

\* is_valid_email is called with some address; a behaviour follows one call
IsValidEmail ==
  /\ ret.op = "none"
  /\ \E email \in EmailInputs :
       ret' = [op |-> "is_valid_email", email |-> email, result |-> is_valid_email(email)]
  /\ UNCHANGED <<now, ticks, env, emailVars, analyticsVars, mainVars, uiVars>>

SpecValidate == InitAnalytics /\ [][IsValidEmail]_vars

\* ---------------------------------------------------------------- chat.py
\* A question is a sequence of characters.  An answer is a sequence of text
\* pieces: only equality of answers is ever used.

\* PortfolioData.get_skills_data(); experience_years as an f-string formats it
skills_data ==
  << [name |-> <<"P", "y", "t", "h", "o", "n">>,
      proficiency |-> 90, category |-> "Languages", experience_years |-> "2"],
     [name |-> <<"D", "j", "a", "n", "g", "o">>,
      proficiency |-> 85, category |-> "Frameworks", experience_years |-> "1.5"],
     [name |-> <<"R", "e", "a", "c", "t", "J", "S">>,
      proficiency |-> 75, category |-> "Frontend", experience_years |-> "1"],
     [name |-> <<"J", "a", "v", "a", "S", "c", "r", "i", "p", "t">>,
      proficiency |-> 70, category |-> "Languages", experience_years |-> "1"],
     [name |-> <<"C", "S", "S">>,
      proficiency |-> 75, category |-> "Frontend", experience_years |-> "1.5"],
     [name |-> <<"H", "T", "M", "L">>,
      proficiency |-> 80, category |-> "Frontend", experience_years |-> "1.5"],
     [name |-> <<"L", "i", "n", "u", "x">>,
      proficiency |-> 70, category |-> "Tools", experience_years |-> "2"],
     [name |-> <<"A", "P", "I", " ", "D", "e", "v", "e", "l", "o", "p", "m",
                 "e", "n", "t">>,
      proficiency |-> 80, category |-> "Backend", experience_years |-> "1.5"],
     [name |-> <<"P", "o", "s", "t", "g", "r", "e", "S", "Q", "L">>,
      proficiency |-> 75, category |-> "Databases", experience_years |-> "1"],
     [name |-> <<"V", "e", "r", "s", "i", "o", "n", " ", "C", "o", "n", "t",
                 "r", "o", "l">>,
      proficiency |-> 85, category |-> "Tools", experience_years |-> "2"],
     [name |-> <<"B", "a", "s", "h">>,
      proficiency |-> 70, category |-> "Tools", experience_years |-> "1"],
     [name |-> <<"D", "a", "t", "a", "b", "a", "s", "e", " ", "M", "a", "n",
                 "a", "g", "e", "m", "e", "n", "t">>,
      proficiency |-> 80, category |-> "Databases", experience_years |-> "1.5"] >>

\* PortfolioData.get_soft_skills()
soft_skills == << "Communication", "Team Player", "Problem-Solving", "Adaptability", "Attention To Detail" >>

\* PortfolioData.get_projects_data(): the keys the chatbot reads; a key that
\* a project lacks is an empty optional
chat_projects_data ==
  << [name |-> <<"O", "n", "l", "i", "n", "e", " ", "S", "h", "o", "p", " ",
                 "D", "j", "a", "n", "g", "o", " ", "P", "r", "o", "j", "e",
                 "c", "t">>,
      description |->
        "A comprehensive Django-based online shopping platform with features like custom user models, product and category management, shopping cart, order processing, inventory control, user account management, and PayPal integration.",
      tech_stack |-> Some(<< "Python", "Django", "PostgreSQL", "JavaScript", "Bootstrap" >>),
      live_demo |-> Some("https://dimipi.pythonanywhere.com/"),
      github_link |-> Some("https://github.com/dimipash/ONLINE_SHOP_DJANGO_PROJECT")],
     [name |-> <<"S", "a", "a", "S", " ", "D", "j", "a", "n", "g", "o", " ",
                 "P", "r", "o", "j", "e", "c", "t">>,
      description |->
        "A foundational Software as a Service (SaaS) solution built with Django, featuring user authentication, subscription management, and custom commands.",
      tech_stack |-> Some(<< "Python", "Django", "PostgreSQL", "Docker" >>),
      live_demo |-> NoneVal,
      github_link |-> Some("https://github.com/dimipash/SAAS")],
     [name |-> <<"P", "y", "t", "h", "o", "n", " ", "A", "I", " ", "P", "r",
                 "o", "j", "e", "c", "t", "s">>,
      description |->
        "A collection of small to medium-sized projects focused on exploring various applications of Artificial Intelligence (AI) using Python and related technologies. Projects include AI research agents, voice assistants, coding mentors, web scrapers, and more.",
      tech_stack |-> Some(<< "Python", "LangChain", "Flask", "Streamlit", "FastAPI", "MongoDB" >>),
      live_demo |-> NoneVal,
      github_link |-> Some("https://github.com/dimipash/AI-PYTHON-PROJECTS")],
     [name |-> <<"A", "I", " ", "W", "e", "b", " ", "S", "c", "r", "a", "p",
                 "e", "r">>,
      description |->
        "An intelligent web scraper that uses AI to extract data from websites. Built with Streamlit and Selenium.",
      tech_stack |-> Some(<< "Python", "Streamlit", "Selenium", "LLM" >>),
      live_demo |-> NoneVal,
      github_link |-> Some("https://github.com/dimipash/AI_WEB_SCRAPER")],
     [name |-> <<"L", "l", "a", "m", "a", "3", ".", "1", " ", "F", "l", "a",
                 "s", "k", " ", "C", "h", "a", "t", "b", "o", "t">>,
      description |->
        "A chatbot powered by Llama3.1, built with Flask. The chatbot can engage in natural conversations and answer user queries.",
      tech_stack |-> Some(<< "Python", "Flask", "Llama3.1" >>),
      live_demo |-> NoneVal,
      github_link |-> Some("https://github.com/dimipash/LLAMA3.1_FLASK_CHATBOT")] >>

\* the fixed text of the question templates
ProficiencyQ ==
  <<"W", "h", "a", "t", " ", "i", "s", " ", "y", "o", "u", "r", " ", "p",
    "r", "o", "f", "i", "c", "i", "e", "n", "c", "y", " ", "i", "n", " ">>
CategoryQ ==
  <<"W", "h", "a", "t", " ", "c", "a", "t", "e", "g", "o", "r", "y", " ",
    "d", "o", "e", "s", " ">>
CategoryQEnd ==
  <<" ", "b", "e", "l", "o", "n", "g", " ", "t", "o", "?">>
ExperienceQ ==
  <<"H", "o", "w", " ", "m", "a", "n", "y", " ", "y", "e", "a", "r", "s",
    " ", "o", "f", " ", "e", "x", "p", "e", "r", "i", "e", "n", "c", "e",
    " ", "d", "o", " ", "y", "o", "u", " ", "h", "a", "v", "e", " ", "i",
    "n", " ">>
SoftSkillsQ ==
  <<"W", "h", "a", "t", " ", "a", "r", "e", " ", "y", "o", "u", "r", " ",
    "s", "o", "f", "t", " ", "s", "k", "i", "l", "l", "s", "?">>
TellMeQ ==
  <<"T", "e", "l", "l", " ", "m", "e", " ", "a", "b", "o", "u", "t", " ",
    "t", "h", "e", " ">>
TechnologiesQ ==
  <<"W", "h", "a", "t", " ", "t", "e", "c", "h", "n", "o", "l", "o", "g",
    "i", "e", "s", " ", "w", "e", "r", "e", " ", "u", "s", "e", "d", " ",
    "i", "n", " ", "t", "h", "e", " ">>
LiveDemoQ ==
  <<"I", "s", " ", "t", "h", "e", "r", "e", " ", "a", " ", "l", "i", "v",
    "e", " ", "d", "e", "m", "o", " ", "f", "o", "r", " ", "t", "h", "e",
    " ">>
GithubLinkQ ==
  <<"I", "s", " ", "t", "h", "e", "r", "e", " ", "a", " ", "G", "i", "t",
    "H", "u", "b", " ", "l", "i", "n", "k", " ", "f", "o", "r", " ", "t",
    "h", "e", " ">>
ProjectDot ==
  <<" ", "p", "r", "o", "j", "e", "c", "t", ".">>
ProjectQ ==
  <<" ", "p", "r", "o", "j", "e", "c", "t", "?">>
QuestionMark ==
  <<"?">>
Hello ==
  <<"h", "e", "l", "l", "o">>

\* ", ".join(items) as a sequence of text pieces
RECURSIVE Join(_)
Join(items) ==
  IF items = <<>> THEN <<>>
  ELSE IF Len(items) = 1 THEN items
  ELSE <<items[1], ", ">> \o Join(Tail(items))

\* the three entries _build_knowledge_base adds for a skill, in order
skill_entries(skill) ==
  << [key |-> ProficiencyQ \o skill.name \o QuestionMark,
      value |-> <<"My proficiency in ", skill.name, " is ",
                  ToString(skill.proficiency), "%.">>],
     [key |-> CategoryQ \o skill.name \o CategoryQEnd,
      value |-> <<skill.name, " belongs to the ", skill.category, " category.">>],
     [key |-> ExperienceQ \o skill.name \o QuestionMark,
      value |-> <<"I have ", skill.experience_years,
                  " years of experience in ", skill.name, ".">>] >>

\* the entries _build_knowledge_base adds for a project, in order
project_entries(project) ==
  << [key |-> TellMeQ \o project.name \o ProjectDot,
      value |-> <<project.description>>] >>
  \o (IF project.tech_stack = NoneVal THEN <<>>
      ELSE << [key |-> TechnologiesQ \o project.name \o ProjectQ,
               value |-> <<"The technologies used in the ", project.name,
                           " project are: ">> \o Join(project.tech_stack[1])
                         \o <<".">>] >>)
  \o (IF project.live_demo = NoneVal THEN <<>>
      ELSE << [key |-> LiveDemoQ \o project.name \o ProjectQ,
               value |-> <<"Yes, you can view the live demo here: ",
                           project.live_demo[1]>>] >>)
  \o (IF project.github_link = NoneVal THEN <<>>
      ELSE << [key |-> GithubLinkQ \o project.name \o ProjectQ,
               value |-> <<"Yes, you can view the source code here: ",
                           project.github_link[1]>>] >>)

\* the entries added by the loop over skills_data.items(), in order: three each
all_skill_entries ==
  [i \in 1..(3 * Len(skills_data)) |->
     skill_entries(skills_data[((i - 1) \div 3) + 1])[((i - 1) % 3) + 1]]

\* the entries added by the loop over the first n projects, in order
RECURSIVE all_project_entries(_)
all_project_entries(n) ==
  IF n = 0 THEN <<>>
  ELSE all_project_entries(n - 1) \o project_entries(chat_projects_data[n])

\* the dict left by knowledge_base[k] = v for every entry in order: a key
\* stands where it was first inserted and holds the value last assigned
DictOf(entries) ==
  LET firsts == {i \in 1..Len(entries) :
                   \A j \in 1..(i - 1) : entries[j].key # entries[i].key}
      nth(k) == CHOOSE i \in firsts : Cardinality({j \in firsts : j < i}) = k - 1
      last(key) == CHOOSE i \in 1..Len(entries) :
                     /\ entries[i].key = key
                     /\ \A j \in (i + 1)..Len(entries) : entries[j].key # key
  IN [k \in 1..Cardinality(firsts) |->
        [key |-> entries[nth(k)].key, value |-> entries[last(entries[nth(k)].key)].value]]

\* Chatbot._build_knowledge_base()
knowledge_base ==
  DictOf(all_skill_entries
         \o << [key |-> SoftSkillsQ,
                value |-> <<"My soft skills are: ">> \o Join(soft_skills) \o <<".">>] >>
         \o all_project_entries(Len(chat_projects_data)))

Greeting == <<"Hello there! How can I help you today?">>
Fallback == <<"I'm sorry, I don't have an answer to that question.">>

\* the characters str.strip() removes that a question here can hold
Whitespace == {" ", "\t", "\n"}

\* str.lstrip(): drop the longest run of whitespace at the front
lstrip(str) ==
  LET n == CHOOSE n \in 0..Len(str) :
             /\ \A i \in 1..n : str[i] \in Whitespace
             /\ n < Len(str) => str[n + 1] \notin Whitespace
  IN SubSeq(str, n + 1, Len(str))
\* str.rstrip(): drop the longest run of whitespace at the back
rstrip(str) ==
  LET n == CHOOSE n \in 0..Len(str) :
             /\ \A i \in (Len(str) - n + 1)..Len(str) : str[i] \in Whitespace
             /\ n < Len(str) => str[Len(str) - n] \notin Whitespace
  IN SubSeq(str, 1, Len(str) - n)
\* str.strip()
strip(str) == rstrip(lstrip(str))

\* str.lower()
UpperCase ==
  <<"A", "B", "C", "D", "E", "F", "G", "H", "I", "J", "K", "L", "M",
    "N", "O", "P", "Q", "R", "S", "T", "U", "V", "W", "X", "Y", "Z">>
LowerCase ==
  <<"a", "b", "c", "d", "e", "f", "g", "h", "i", "j", "k", "l", "m",
    "n", "o", "p", "q", "r", "s", "t", "u", "v", "w", "x", "y", "z">>
lower_char(c) ==
  IF \E i \in 1..Len(UpperCase) : UpperCase[i] = c
    THEN LowerCase[CHOOSE i \in 1..Len(UpperCase) : UpperCase[i] = c]
    ELSE c
lower(str) == [i \in 1..Len(str) |-> lower_char(str[i])]

\* the lookup of _get_answer, lines 60-65, on the question as given to it
lookup(question) ==
  IF lower(question) = Hello THEN Greeting
  ELSE IF HasKey(knowledge_base, question) THEN DictGet(knowledge_base, question, Fallback)
  ELSE Fallback

\* _get_answer as it would be without its strip() line
get_answer_unstripped(question) == lookup(question)

\* Chatbot._get_answer(question)
get_answer(question) == lookup(strip(question))

\* The questions asked: every key of the knowledge base, every key in lower
\* case, every key without its last character, "hello" in every letter case,
\* and some other texts; each also with whitespace before and after it.
upper_char(c) == UpperCase[CHOOSE j \in 1..Len(LowerCase) : LowerCase[j] = c]
HelloCases ==
  { [i \in 1..Len(Hello) |-> IF up[i] THEN upper_char(Hello[i]) ELSE Hello[i]] :
      up \in [1..Len(Hello) -> BOOLEAN] }
KeyTexts == {knowledge_base[i].key : i \in 1..Len(knowledge_base)}
QuestionCores ==
  KeyTexts
  \cup {lower(k) : k \in KeyTexts}
  \cup {SubSeq(k, 1, Len(k) - 1) : k \in KeyTexts}
  \cup HelloCases
  \cup {<<>>, <<"h", "i">>, Hello \o <<"!">>, Hello \o <<" ">> \o Hello,
        <<"h", "e", "l", " ", "l", "o">>}
Paddings == {<<>>, <<" ">>, <<"\n">>, <<"\t", " ">>}
ChatInputs ==
  {lead \o core \o trail : lead \in Paddings, core \in QuestionCores, trail \in Paddings}

\* _get_answer is called with some question; a behaviour follows one call
GetAnswer ==
  /\ ret.op = "none"
  /\ \E question \in ChatInputs :
       ret' = [op |-> "get_answer", question |-> question, answer |-> get_answer(question)]
  /\ UNCHANGED <<now, ticks, env, emailVars, analyticsVars, mainVars, uiVars>>

SpecChat == InitAnalytics /\ [][GetAnswer]_vars

\* ------------------------------------------------- chat.py: display_chat
\* the texts the visitor puts into the input box
ChatQuestions ==
  {<<>>, Hello, SoftSkillsQ, <<"h", "i">>, <<" ">> \o SoftSkillsQ}

\* display_chat, lines 74-81, with the box holding text: the history
\* afterwards
display_chat(entry, text) ==
  LET history == OrDefault(entry, <<>>) IN
  IF text # <<>>
    THEN Some(Append(history, [user |-> text, bot |-> get_answer(text)]))
    ELSE Some(history)

\* One run of display_chat for a session.  The run follows either the visitor
\* putting a new text into the box (typed) or anything else that makes
\* Streamlit run the page again; the box keeps its text between runs.
DisplayChat(s) ==
  /\ renders[s] < MaxRenders
  /\ renders' = [renders EXCEPT ![s] = @ + 1]
  /\ \E typed \in {NoneVal} \cup {Some(q) : q \in ChatQuestions \ {user_input[s]}} :
       LET text == OrDefault(typed, user_input[s]) IN
       /\ user_input' = [user_input EXCEPT ![s] = text]
       /\ chat_history' = [chat_history EXCEPT ![s] = display_chat(@, text)]
       /\ ret' = [op |-> "display_chat", session |-> s, typed |-> typed,
                  text |-> text,
                  pre_history |-> OrDefault(chat_history[s], <<>>),
                  post_history |-> display_chat(chat_history[s], text)[1]]
  /\ UNCHANGED <<github_cache, now, ticks, env, emailVars, analyticsVars,
                 project_views, contact_submissions, form_fields>>

SpecChatPage == InitAnalytics /\ [][DisplayChat("A")]_vars

\* ------------------------------------------------- components.py: sections
\* PortfolioData.get_projects_data(): name and tech_stack of each project
portfolio_projects ==
  << [name |-> "Online Shop Django Project",
      tech_stack |-> Some({"Python", "Django", "PostgreSQL", "JavaScript", "Bootstrap"})],
     [name |-> "SaaS Django Project",
      tech_stack |-> Some({"Python", "Django", "PostgreSQL", "Docker"})],
     [name |-> "Python AI Projects",
      tech_stack |-> Some({"Python", "LangChain", "Flask", "Streamlit", "FastAPI", "MongoDB"})],
     [name |-> "AI Web Scraper",
      tech_stack |-> Some({"Python", "Streamlit", "Selenium", "LLM"})],
     [name |-> "Llama3.1 Flask Chatbot",
      tech_stack |-> Some({"Python", "Flask", "Llama3.1"})] >>

\* _get_analytics_state() on a session_state entry that may be absent
analytics_state_of(entry) == IF entry = NoneVal THEN NewAnalyticsState ELSE entry[1]

\* render_projects_section, lines 180-185: the session's analytics entry after
\* the loop over the first n projects; the body of a shown project's expander
\* runs, and with it track_project_view, whether the card is open or not
RECURSIVE render_projects_section(_, _, _)
render_projects_section(entry, tech_filter, n) ==
  IF n = 0 THEN entry
  ELSE LET before == render_projects_section(entry, tech_filter, n - 1) IN
       IF Shown(portfolio_projects[n], tech_filter)
         THEN Some(view_counted(analytics_state_of(before), portfolio_projects[n].name))
         ELSE before

\* the names of the projects a filter shows
ShownNames(tech_filter) ==
  {portfolio_projects[i].name :
     i \in {i \in 1..Len(portfolio_projects) : Shown(portfolio_projects[i], tech_filter)}}

\* the sets of cards a visitor opens that are followed: none, one, or all
ExpandChoices(shown) == {{}, shown} \cup {{p} : p \in shown}

\* One run of render_projects_section for a session.  expanded is the set of
\* cards the visitor opened for this run; the code does not read it.
\* trackCalls counts the TrackProjectView steps only.
RenderProjectsSection(s) ==
  /\ renders[s] < MaxRenders
  /\ renders' = [renders EXCEPT ![s] = @ + 1]
  /\ \E tech_filter \in FilterChoices :
       LET entry == render_projects_section(analytics[s], tech_filter, Len(portfolio_projects))
           cache1 == IF ShownNames(tech_filter) = {} THEN cache ELSE <<>>
       IN /\ analytics' = [analytics EXCEPT ![s] = entry]
          /\ cache' = cache1
          /\ invalidated' = {cache[i].key : i \in 1..Len(cache)}
                              \ {cache1[i].key : i \in 1..Len(cache1)}
          /\ \E expanded \in ExpandChoices(ShownNames(tech_filter)) :
               ret' = [op |-> "render_projects_section", session |-> s,
                       tech_filter |-> tech_filter, expanded |-> expanded,
                       pre_views |-> analytics_state_of(analytics[s]).project_views,
                       post_views |-> analytics_state_of(entry).project_views]
  /\ UNCHANGED <<uiVars, now, ticks, env, emailVars, trackCalls, visitCalls,
                 submitCalls, project_views, contact_submissions, form_fields>>

\* what the visitor typed into the Email field of the contact form
ContactEmails ==
  {<<>>, <<"a">>, <<"a", "@", "b">>, <<"a", "@", "b", ".", "c", "c">>,
   <<"a", "@", "b", ".", "c", "c", "\n">>}

\* the contents of the four fields that are followed: at most one of name,
\* subject and message is left empty
ContactInputs ==
  {f \in [name : FormTexts, email : ContactEmails, subject : FormTexts,
          message : FormTexts] :
     Cardinality({k \in {"name", "subject", "message"} : f[k] = <<>>}) <= 1}
BlankForm == [name |-> <<>>, email |-> <<>>, subject |-> <<>>, message |-> <<>>]

\* render_contact_form as it would be without its is_valid_email check
render_contact_form_unvalidated(s, submitted, name, email, subject, message, transport) ==
  IF ~submitted THEN [send |-> NoneVal, error |-> ""]
  ELSE IF name = <<>> \/ email = <<>> \/ subject = <<>> \/ message = <<>>
    THEN [send |-> NoneVal, error |-> "Please fill in all fields"]
  ELSE [send |-> Some(send_email(s, transport)), error |-> ""]

\* render_contact_form, lines 260-276: the outcome of the send_email call if
\* the submission gets that far, and the message shown if it does not
render_contact_form(s, submitted, name, email, subject, message, transport) ==
  IF ~submitted THEN [send |-> NoneVal, error |-> ""]
  ELSE IF name = <<>> \/ email = <<>> \/ subject = <<>> \/ message = <<>>
    THEN [send |-> NoneVal, error |-> "Please fill in all fields"]
  ELSE IF ~is_valid_email(email)
    THEN [send |-> NoneVal, error |-> "Please enter a valid email address"]
  ELSE [send |-> Some(send_email(s, transport)), error |-> ""]

\* One run of render_contact_form for a session: the form is drawn and, if
\* "Send Message" was pressed, validated, sent and counted.
RenderContactForm(s) ==
  /\ renders[s] < MaxRenders
  /\ renders' = [renders EXCEPT ![s] = @ + 1]
  /\ \E submitted \in BOOLEAN :
     \E form \in IF submitted THEN ContactInputs ELSE {BlankForm} :
     \E transport \in IF submitted THEN Transports ELSE {"ok"} :
       LET name == form.name
           email == form.email
           subject == form.subject
           message == form.message
           f == render_contact_form(s, submitted, name, email, subject, message, transport)
           called == f.send # NoneVal
           sent == called /\ f.send[1].result = "True"
       IN /\ current_hour' = [current_hour EXCEPT ![s] =
                                IF called THEN f.send[1].current_hour ELSE @]
          /\ email_count' = [email_count EXCEPT ![s] =
                               IF called THEN f.send[1].email_count ELSE @]
          /\ okAttempts' = [okAttempts EXCEPT ![s] =
                              IF called /\ ConfigValid /\ transport = "ok" THEN @ + 1 ELSE @]
          /\ trueReturns' = [trueReturns EXCEPT ![s] = IF sent THEN @ + 1 ELSE @]
          /\ failedAttempts' = [failedAttempts EXCEPT ![s] =
                                  IF called /\ ~sent THEN @ + 1 ELSE @]
          /\ window_start' = [window_start EXCEPT ![s] =
                                IF called /\ f.send[1].current_hour # current_hour[s]
                                  THEN now ELSE @]
          /\ analytics' = [analytics EXCEPT ![s] =
                             IF sent THEN Some(track_contact_submission(s)) ELSE @]
          /\ submitCalls' = [submitCalls EXCEPT ![s] = IF sent THEN @ + 1 ELSE @]
          /\ form_fields' = [form_fields EXCEPT ![s] = IF sent THEN Some(<<>>) ELSE @]
          /\ ret' = [op |-> "render_contact_form", session |-> s,
                     submitted |-> submitted, name |-> name, email |-> email,
                     subject |-> subject, message |-> message,
                     transport |-> transport, send |-> f.send, error |-> f.error]
  /\ UNCHANGED <<uiVars, now, ticks, env, cache, invalidated, trackCalls,
                 visitCalls, project_views, contact_submissions>>

\* a server process that serves one session, with the mail settings either
\* complete or absent
InitComponents ==
  /\ Init
  /\ now = 9
  /\ ConfigValid \/ \A v \in EnvVars : env[v] = NoneVal

NextComponents ==
  \/ RenderProjectsSection("A")
  \/ RenderContactForm("A")

SpecComponents == InitComponents /\ [][NextComponents]_vars

\* ------------------------------------------------------ email guard claims
Min(a, b) == IF a < b THEN a ELSE b
IsSend == ret.op = "send_email"
IsLoad == ret.op = "load_email_config"
Elems(seq) == {seq[i] : i \in 1..Len(seq)}

\* C1: of k attempts made in one window with valid configuration and a working
\* transport exactly min(k, EMAIL_RATE_LIMIT) return True, and an attempt made
\* with the quota used up returns False, opens no SMTP connection and leaves
\* email_count and current_hour as they were.
C1_QuotaPerWindow ==
  /\ \A s \in EmailSessions :
       okAttempts[s] = trueReturns[s] + failedAttempts[s]
         => trueReturns[s] = Min(okAttempts[s], EMAIL_RATE_LIMIT)
  /\ (IsSend /\ ret.pre_true >= EMAIL_RATE_LIMIT)
       => /\ ret.result = "False"
          /\ ret.smtp = <<>>
          /\ ret.post_count = ret.pre_count
          /\ ret.post_hour = ret.pre_hour

\* C3: an attempt made after the clock crossed an hour boundary since the
\* window began resets email_count and records the new hour before the limit
\* check, so it succeeds when configuration and transport are fine.
C3_ResetOnNewHour ==
  (IsSend /\ ret.crossed)
    => /\ ret.post_hour = Some(ret.clock_hour)
       /\ ret.post_count \in {Some(0), Some(1)}
       /\ (ret.config_valid /\ ret.transport = "ok") => ret.result = "True"

\* C4: a send_email call ends by returning True or False, with a message for
\* the user on False; no exception reaches the caller.
C4_NoEscapingError ==
  IsSend => /\ ret.result \in {"True", "False"}
            /\ ret.result = "False" => ret.error # ""

\* C5: a call whose transport fails returns False and leaves email_count at
\* its value of the limit check; after failed attempts a send with valid
\* configuration and a working transport still succeeds while fewer than
\* EMAIL_RATE_LIMIT sends of the window succeeded.
C5_FailureKeepsQuota ==
  /\ (IsSend /\ ret.transport # "ok" /\ ret.config_valid /\ ret.pre_true < EMAIL_RATE_LIMIT)
       => /\ ret.result = "False"
          /\ OrDefault(ret.post_count, 0) =
               (IF OrDefault(ret.pre_hour, 0) # ret.clock_hour
                  THEN 0 ELSE OrDefault(ret.pre_count, 0))
  /\ (IsSend /\ ret.transport = "ok" /\ ret.config_valid /\ ret.pre_failed > 0
        /\ ret.pre_true < EMAIL_RATE_LIMIT)
       => ret.result = "True"

\* C6: with EMAIL_USERNAME and EMAIL_PASSWORD unset, send_email returns False
\* without opening an SMTP connection, its message names every missing
\* variable and email_count is unchanged; load_email_config raises ValueError
\* listing the missing names.
CredentialsUnset == env["EMAIL_USERNAME"] = NoneVal /\ env["EMAIL_PASSWORD"] = NoneVal
C6_MissingCredentials ==
  /\ (IsSend /\ CredentialsUnset /\ ret.pre_true < EMAIL_RATE_LIMIT)
       => /\ ret.result = "False"
          /\ ret.smtp = <<>>
          /\ {"EMAIL_USERNAME", "EMAIL_PASSWORD"} \subseteq Elems(ret.names)
          /\ OrDefault(ret.post_count, 0) =
               (IF OrDefault(ret.pre_hour, 0) # ret.clock_hour
                  THEN 0 ELSE OrDefault(ret.pre_count, 0))
  /\ (IsLoad /\ CredentialsUnset)
       => /\ ret.result.raised = "ValueError"
          /\ {"EMAIL_USERNAME", "EMAIL_PASSWORD"} \subseteq Elems(ret.result.names)

\* C7: with EMAIL_USERNAME and EMAIL_PASSWORD set, load_email_config succeeds
\* when EMAIL_HOST and/or EMAIL_PORT are unset, returning host smtp.gmail.com
\* and port 587 for the unset ones (so that send_email can go on to the
\* transport).
CredentialsSet == Truthy(env["EMAIL_USERNAME"]) /\ Truthy(env["EMAIL_PASSWORD"])
HostOrPortUnset ==
  /\ env["EMAIL_HOST"] = NoneVal \/ env["EMAIL_PORT"] = NoneVal
  /\ env["EMAIL_HOST"] = NoneVal \/ Truthy(env["EMAIL_HOST"])
  /\ env["EMAIL_PORT"] = NoneVal \/ IntParses(env["EMAIL_PORT"][1])
C7_DefaultsForHostAndPort ==
  (IsLoad /\ CredentialsSet /\ HostOrPortUnset)
    => /\ ret.result.raised = "no"
       /\ env["EMAIL_HOST"] = NoneVal => ret.result.host = DefaultHost
       /\ env["EMAIL_PORT"] = NoneVal => ret.result.port = 587

\* --------------------------------------------------------- analytics claims
IsRead == ret.op = "get_project_views"

\* C8: in a session, get_project_views(p) returns the number of
\* track_project_view(p) calls the session made so far, whatever reads came
\* before, and 0 for a name never tracked.
C8_ViewsEqualTrackCalls ==
  (IsRead /\ ret.session = "A") => ret.value = trackCalls["A"][ret.name]

\* a read of a name whose cached value the last track dropped returns the new count
C8_Witness ==
  /\ IsRead /\ ret.session = "A"
  /\ ret.name \in invalidated
  /\ ret.value = MaxViews
  /\ \E p \in ProjectNames : trackCalls["A"][p] = 0

\* C9: with two sessions in one process, what get_project_views(p) returns in
\* a session is the number of track_project_view(p) calls of that session.
C9_SessionIsolation ==
  \A s \in Sessions :
    (IsRead /\ ret.session = s) => ret.value = trackCalls[s][ret.name]

\* --------------------------------------------------------------- main claims
\* Analytics.get_total_visits() of a session
total_visits(s) == get_analytics_state(s).total_visits

\* C10: after the first run of main() in a session total_visits is 1, and it
\* stays 1 over every later run.
C10_VisitCountedOnce ==
  \A s \in Sessions : renders[s] >= 1 => total_visits(s) = 1

\* ------------------------------------------------- claims about Analytics
IsSummary == ret.op = "get_analytics_summary"
ReadOps == {"get_project_views", "get_total_visits", "get_total_contact_submissions",
            "get_last_interaction", "get_analytics_summary"}
RECURSIVE SumCalls(_, _)
SumCalls(s, names) ==
  IF names = {} THEN 0
  ELSE LET p == CHOOSE p \in names : TRUE IN trackCalls[s][p] + SumCalls(s, names \ {p})

\* C11: track_visit does not deduplicate: after k calls in a session
\* total_visits is k, and a call adds exactly 1 to total_visits and changes
\* no other field of the analytics state.
C11_VisitsCountEveryCall ==
  /\ [](total_visits("A") = visitCalls["A"])
  /\ [][visitCalls'["A"] # visitCalls["A"] =>
          get_analytics_state("A")' =
            [get_analytics_state("A") EXCEPT !.total_visits = @ + 1]]_vars

C11_Witness ==
  /\ ret.op = "track_visit"
  /\ visitCalls["A"] = 2
  /\ total_visits("A") = 2
  /\ get_analytics_state("A").project_views # <<>>
  /\ get_analytics_state("A").contact_submissions > 0

\* C12: the summary's most_viewed_project is a (name, count) entry of
\* project_views whose count no tracked project exceeds, and it is
\* ("None", 0) exactly when no project has been tracked.
C12_MostViewedIsMaximum ==
  IsSummary =>
    LET views == get_analytics_state(ret.session).project_views
        m == ret.value.most_viewed_project IN
    /\ (m = <<"None", 0>>) <=> (SumCalls(ret.session, ProjectNames) = 0)
    /\ SumCalls(ret.session, ProjectNames) > 0 =>
         /\ \E i \in 1..Len(views) : views[i].key = m[1] /\ views[i].value = m[2]
         /\ \A p \in ProjectNames : trackCalls[ret.session][p] <= m[2]

C12_Witness ==
  /\ IsSummary
  /\ ret.value.most_viewed_project = <<"Beta", 2>>
  /\ trackCalls["A"]["Alpha"] = 1
  /\ get_analytics_state("A").project_views[1].key = "Alpha"

\* C13: the summary's total_project_views is the sum of the per-project
\* counts, which is the number of track_project_view calls of the session,
\* and its total_visits, total_contact_submissions and last_interaction are
\* the stored fields.
C13_SummaryTotals ==
  IsSummary =>
    LET state == get_analytics_state(ret.session) IN
    /\ ret.value.total_project_views = SumCalls(ret.session, ProjectNames)
    /\ \A p \in ProjectNames :
         DictGet(state.project_views, p, 0) = trackCalls[ret.session][p]
    /\ ret.value.total_visits = state.total_visits
    /\ ret.value.total_contact_submissions = state.contact_submissions
    /\ ret.value.last_interaction = state.last_interaction

C13_Witness ==
  /\ IsSummary
  /\ ret.value.total_project_views = 4
  /\ trackCalls["A"]["Alpha"] = 2 /\ trackCalls["A"]["Beta"] = 2
  /\ ret.value.total_visits = 1
  /\ ret.value.total_contact_submissions = 2
  /\ ret.value.last_interaction # NoneVal

\* C14: every analytics counter is non-negative and never decreases, no
\* project key is ever removed, and the analytics state, once created, is
\* never removed or reset.
C14_CountersNeverDecrease ==
  /\ [](analytics["A"] # NoneVal =>
          LET state == analytics["A"][1] IN
          /\ state.total_visits >= 0
          /\ state.contact_submissions >= 0
          /\ \A i \in 1..Len(state.project_views) : state.project_views[i].value >= 0)
  /\ [][analytics["A"] # NoneVal =>
          /\ analytics'["A"] # NoneVal
          /\ LET old == analytics["A"][1]
                 new == analytics'["A"][1] IN
             /\ new.total_visits >= old.total_visits
             /\ new.contact_submissions >= old.contact_submissions
             /\ SumValues(new.project_views) >= SumValues(old.project_views)
             /\ \A i \in 1..Len(old.project_views) :
                  /\ HasKey(new.project_views, old.project_views[i].key)
                  /\ DictGet(new.project_views, old.project_views[i].key, 0)
                       >= old.project_views[i].value]_vars

C14_Witness ==
  /\ ret.op \in ReadOps
  /\ total_visits("A") = 2
  /\ get_analytics_state("A").contact_submissions = 2
  /\ Len(get_analytics_state("A").project_views) = 2
  /\ SumValues(get_analytics_state("A").project_views) = 3

\* C15: track_contact_submission adds exactly 1 to contact_submissions and
\* sets last_interaction to the current time, leaving total_visits and
\* project_views as they were; so last_interaction is None exactly when
\* contact_submissions is 0.
C15_SubmissionStampsTime ==
  /\ [](LET state == get_analytics_state("A") IN
        /\ state.contact_submissions = submitCalls["A"]
        /\ (state.last_interaction = NoneVal) <=> (state.contact_submissions = 0))
  /\ [][submitCalls'["A"] # submitCalls["A"] =>
          get_analytics_state("A")' =
            [get_analytics_state("A") EXCEPT
               !.contact_submissions = @ + 1,
               !.last_interaction = Some(isoformat(now))]]_vars

C15_Witness ==
  /\ ret.op = "track_contact_submission"
  /\ submitCalls["A"] = 2
  /\ now # 9
  /\ get_analytics_state("A").last_interaction = Some(isoformat(now))
  /\ total_visits("A") > 0
  /\ get_analytics_state("A").project_views # <<>>

\* C16: a read changes no counter and no key of any session's analytics
\* state; get_project_views(p) for a p the session has not tracked returns 0
\* and does not insert p; and a read changes no value that a later
\* get_project_views or get_analytics_summary of any session returns.
C16_ReadsChangeNothing ==
  [][ret'.op \in ReadOps =>
       /\ \A s \in Sessions :
            /\ get_analytics_state(s)' = get_analytics_state(s)
            /\ get_analytics_summary(s)' = get_analytics_summary(s)
            /\ \A p \in ProjectNames :
                 get_cached_project_views(s, p).value' = get_cached_project_views(s, p).value
       /\ \A s \in Sessions, p \in ProjectNames :
            (/\ ret'.op = "get_project_views" /\ ret'.session = s /\ ret'.name = p
             /\ ~HasKey(get_analytics_state(s).project_views, p)) =>
              /\ ret'.value = 0
              /\ ~HasKey(get_analytics_state(s)'.project_views, p)]_vars

\* ------------------------------------------- claims about the GitHub section
IsGithub == ret.op = "render_github_section"
\* the repository-list request failed, timed out or returned something that
\* is not a list of repositories
ListRequestFailed ==
  \/ RaisesRequestException(ret.list_outcome)
  \/ /\ ret.list_outcome = "ok"
     /\ \/ ret.fetched.kind # "list"
        \/ \E i \in 1..Len(ret.fetched.items) : ret.fetched.items[i].updated_at = NoneVal

\* C17: every failure of the repository API is caught where it occurs: when
\* the list request fails, fetch_github_data returns an empty result and the
\* section shows its warning; when a languages request fails, that repository
\* is shown without languages; and render_github_section raises nothing.
C17_ApiFailuresAreCaught ==
  IsGithub =>
    /\ ret.raised = "no"
    /\ ListRequestFailed => Falsy(ret.fetched) /\ ret.warning
    /\ \A i \in 1..Len(ret.shown) :
         ret.language_outcomes[i] # "ok" => ret.shown[i].unable

\* ---------------------------------------------- claims about is_valid_email
Count(str, c) == Cardinality({i \in 1..Len(str) : str[i] = c})
AtIndex(str) == CHOOSE i \in 1..Len(str) : str[i] = "@"
\* a non-empty local part, one "@", and a domain ending in a dot and at
\* least two letters
WellShaped(str) ==
  /\ Count(str, "@") = 1
  /\ AtIndex(str) > 1
  /\ \E dot \in (AtIndex(str) + 1)..(Len(str) - 2) :
       /\ str[dot] = "."
       /\ \A k \in (dot + 1)..Len(str) : str[k] \in Letters
\* empty, no "@", several "@", an empty local part or domain, no dot in the
\* domain, or a space
IllShaped(str) ==
  \/ str = <<>>
  \/ Count(str, "@") # 1
  \/ AtIndex(str) = 1
  \/ AtIndex(str) = Len(str)
  \/ \A k \in (AtIndex(str) + 1)..Len(str) : str[k] # "."
  \/ Count(str, " ") > 0

\* C19: is_valid_email(s) is True only for strings made of a non-empty local
\* part, exactly one "@" and a domain that ends in a dot followed by at least
\* two letters, and it is False for the empty string and for every string
\* with no "@", several "@", an empty local part or domain, no top-level
\* domain, or a space.
C19_ValidOnlyIfWellShaped ==
  ret.op = "is_valid_email" =>
    /\ ret.result => WellShaped(ret.email)
    /\ IllShaped(ret.email) => ~ret.result

\* ------------------------------------------------ claims about the chatbot
IsAnswer == ret.op = "get_answer"
\* str without the whitespace before its first and after its last other character
Trimmed(str) ==
  LET inked == {i \in 1..Len(str) : str[i] \notin Whitespace} IN
  IF inked = {} THEN <<>>
  ELSE SubSeq(str, CHOOSE i \in inked : \A j \in inked : i <= j,
                   CHOOSE i \in inked : \A j \in inked : j <= i)
\* "hello" in any letter case
IsHello(str) == str \in HelloCases
\* what the claim says the answer to str is, str taken as it stands
AnswerTo(str) ==
  IF IsHello(str) THEN Greeting
  ELSE IF str \in KeyTexts
    THEN (CHOOSE e \in {knowledge_base[i] : i \in 1..Len(knowledge_base)} : e.key = str).value
  ELSE Fallback

\* C20 as stated: the greeting for "hello" in any letter case, the stored
\* answer for a question equal to a key character for character, and the
\* fallback for every other input, with no normalization of the question.
C20_ExactMatchOnly == IsAnswer => ret.answer = AnswerTo(ret.question)

\* C20 amended: the question is first stripped of the whitespace around it;
\* the stripped question gets the greeting if it is "hello" in any letter
\* case, the stored answer if it equals a key character for character, and
\* the fallback otherwise.
C20_MatchAfterStrip == IsAnswer => ret.answer = AnswerTo(Trimmed(ret.question))

C20_Witness ==
  /\ IsAnswer
  /\ Trimmed(ret.question) # ret.question
  /\ Trimmed(ret.question) \in KeyTexts
  /\ ret.answer \notin {Greeting, Fallback}

\* ------------------------------------------ claims about the guard's progress
\* C22: the guard has no terminal state.  In finite form: an attempt made with
\* valid configuration and a working transport while the stored count is below
\* EMAIL_RATE_LIMIT returns True, and an attempt made in the window whose
\* quota is used up leaves the stored count as it is (only the clock entering
\* a new window ends the exhaustion).
C22_NoTerminalGuardState ==
  /\ (IsSend /\ ret.config_valid /\ ret.transport = "ok"
        /\ OrDefault(ret.pre_count, 0) < EMAIL_RATE_LIMIT)
       => ret.result = "True"
  /\ (IsSend /\ OrDefault(ret.pre_count, 0) >= EMAIL_RATE_LIMIT
        /\ OrDefault(ret.pre_hour, 0) = ret.clock_hour)
       => ret.post_count = ret.pre_count

\* ------------------------------------------------ claims about ties of views
\* the keys of a dict in insertion order
Keys(dict) == [i \in 1..Len(dict) |-> dict[i].key]
IsPrefix(a, b) == Len(a) <= Len(b) /\ SubSeq(b, 1, Len(a)) = a
\* the projects whose count no project of the dict exceeds
Leaders(dict) ==
  {dict[i].key : i \in {i \in 1..Len(dict) : \A j \in 1..Len(dict) : dict[j].value <= dict[i].value}}

\* C25: a project tracked for the first time is placed behind the projects
\* tracked before it, and when several projects share the greatest count the
\* summary names the one of them that was tracked first; a later summary
\* taken while the same projects still share the greatest count names the
\* same project.
C25_TieGoesToFirstTracked ==
  /\ [][IsPrefix(Keys(get_analytics_state("A").project_views),
                 Keys(get_analytics_state("A").project_views'))]_vars
  /\ [](IsSummary =>
          LET views == get_analytics_state("A").project_views
              m == ret.value.most_viewed_project IN
          Cardinality(Leaders(views)) > 1 =>
            /\ m[1] \in Leaders(views)
            /\ \A p \in Leaders(views) : IndexOf(views, m[1]) <= IndexOf(views, p))
  /\ [][(IsSummary /\ IsSummary'
           /\ Cardinality(Leaders(get_analytics_state("A").project_views)) > 1
           /\ Leaders(get_analytics_state("A").project_views')
                = Leaders(get_analytics_state("A").project_views))
          => ret'.value.most_viewed_project[1] = ret.value.most_viewed_project[1]]_vars

C25_Witness ==
  /\ IsSummary
  /\ Keys(get_analytics_state("A").project_views) = <<"Beta", "Alpha">>
  /\ trackCalls["A"]["Alpha"] = 2
  /\ trackCalls["A"]["Beta"] = 2
  /\ ret.value.most_viewed_project = <<"Beta", 2>>

\* ----------------------------------------- claims about the page's sections
IsProjects == ret.op = "render_projects_section"
IsContact == ret.op = "render_contact_form"
\* the submission passes both checks of the contact form
PassesChecks(r) ==
  /\ r.name # <<>> /\ r.email # <<>> /\ r.subject # <<>> /\ r.message # <<>>
  /\ is_valid_email(r.email)

\* C26: in a run of the projects section the count of a project rises by 1 if
\* the visitor opened its card and stays as it is otherwise; a project hidden
\* by the filter, whose card cannot be opened, is not counted.
C26_ViewsFollowExpandEvents ==
  IsProjects =>
    \A i \in 1..Len(portfolio_projects) :
      LET p == portfolio_projects[i].name IN
      DictGet(ret.post_views, p, 0) =
        DictGet(ret.pre_views, p, 0) + (IF p \in ret.expanded THEN 1 ELSE 0)

\* C27: a submission gets to send_email only if the four fields are non-empty
\* and is_valid_email(email) holds; a submission that fails a check leaves
\* email_count, current_hour and the analytics state as they were, reads no
\* mail setting and makes no SMTP call.
C27_InvalidSubmissionChangesNothing ==
  /\ [](IsContact /\ ret.send # NoneVal => ret.submitted /\ PassesChecks(ret))
  /\ [][(ret'.op = "render_contact_form" /\ ret'.submitted /\ ~PassesChecks(ret'))
          => /\ ret'.send = NoneVal
             /\ ret'.error # ""
             /\ UNCHANGED <<email_count, current_hour, analytics, cache>>]_vars

C27_Witness ==
  /\ IsContact
  /\ ret.submitted
  /\ ret.name # <<>> /\ ret.subject # <<>> /\ ret.message # <<>>
  /\ ret.email = <<"a", "@", "b">>
  /\ ret.send = NoneVal
  /\ failedAttempts["A"] > 0
  /\ analytics["A"] # NoneVal

\* ------------------------------------------------ claims about the chat page
IsChat == ret.op = "display_chat"

====
